---- MODULE Spec2Model ----
(***************************************************************************)
(* State-machine model of gym_snake/envs/snake_env.py: the SnakeGame       *)
(* engine (reset, step) with the events each step returns, the SnakeEnv    *)
(* adapter in front of it (step, reset) and the SnakeViewer the adapter    *)
(* feeds with the events.                                                  *)
(*                                                                         *)
(* Coordinates are pairs <<x, y>>.  The deque snake_squares is a sequence  *)
(* whose first element is the tail (popleft end) and whose last element is *)
(* the head (append/pop end).  An event is a tuple: the bare enum members  *)
(* Event.DEAD and Event.WIN are the 1-tuples <<"DEAD">> and <<"WIN">>, the  *)
(* pairs (Event.X, square) are <<"X", square>>.                            *)
(***************************************************************************)
EXTENDS Integers, Sequences, FiniteSets

\* Board size the model is explored with (SnakeGame(width, height)).
Width == 3
Height == 2

VARIABLES
    board,           \* self.board: cell -> 0 (empty), 1 (snake), 2 (food)
    snake_squares,   \* self.snake_squares: tail first, head last
    food_square,     \* self.food_square
    current_dir,     \* self.current_dir
    game_over,       \* self.game_over
    events,          \* the list returned by the last SnakeGame.step call
    call,            \* the last SnakeGame call: reset, or step with its direction
    viewer,          \* SnakeEnv.viewer: None, or the SnakeViewer's geoms
    env_call         \* the last SnakeEnv call and what it returned; of the
                     \* action, whether it was valid, and the action itself
                     \* when it reached the engine

vars == <<board, snake_squares, food_square, current_dir, game_over, events, call,
          viewer, env_call>>

\* The fields of SnakeGame, and what the last call on it left behind.
game_vars == <<board, snake_squares, food_square, current_dir, game_over>>

\* class Dir
Dir == {"NORTH", "EAST", "SOUTH", "WEST"}

\* Dir.value
DirValue(d) ==
    CASE d = "NORTH" -> <<0, 1>>
      [] d = "EAST"  -> <<1, 0>>
      [] d = "SOUTH" -> <<0, -1>>
      [] d = "WEST"  -> <<-1, 0>>

\* tuple(map(operator.add, old_head, direction.value))
AddDir(sq, d) == <<sq[1] + DirValue(d)[1], sq[2] + DirValue(d)[2]>>

\* Index set of self.board, an array of shape (width, height).
Cells == (0 .. (Width - 1)) \X (0 .. (Height - 1))

\* 0 <= new_head[0] < self.width and 0 <= new_head[1] < self.height
InBounds(sq) ==
    /\ 0 <= sq[1] /\ sq[1] < Width
    /\ 0 <= sq[2] /\ sq[2] < Height

\* Variant of EmptyCells: tests board != 1, so the food cell counts as free.
EmptyCells_NotSnake(b) == {c \in Cells : b[c] # 1}

\* np.argwhere(self.board == 0)
EmptyCells(b) == {c \in Cells : b[c] = 0}

\* np.argwhere(self.board == 1), as get_snake_squares returns it
get_snake_squares == {c \in Cells : board[c] = 1}

\* get_state: (head, food_square)
get_state == <<snake_squares[Len(snake_squares)], food_square>>

\* Variant of reset: the old board is kept instead of a fresh array of zeros.
reset_KeepBoard(head) ==
    LET board0 == [board EXCEPT ![head] = 1]
    IN  /\ game_over' = FALSE
        /\ current_dir' = "NORTH"
        /\ snake_squares' = <<head>>
        /\ \E food \in EmptyCells(board0) :
              /\ food_square' = food
              /\ board' = [board0 EXCEPT ![food] = 2]

\* SnakeGame.reset(head); with head=None the head is drawn from the same cells.
reset(head) ==
    LET board0 == [c \in Cells |-> IF c = head THEN 1 ELSE 0]
    IN  /\ game_over' = FALSE
        /\ current_dir' = "NORTH"
        /\ snake_squares' = <<head>>
        /\ \E food \in EmptyCells(board0) :
              /\ food_square' = food
              /\ board' = [board0 EXCEPT ![food] = 2]

\* Variant of ResolveDir: peeks at the wrong end of the deque (the tail).
ResolveDir_WrongEnd(direction) ==
    LET n == Len(snake_squares)
        old_head == snake_squares[n]
    IN  IF n > 1 /\ snake_squares[1] = AddDir(old_head, direction)
        THEN current_dir
        ELSE direction

\* Lines 212-221: the direction the step resolves to.
ResolveDir(direction) ==
    LET n == Len(snake_squares)
        old_head == snake_squares[n]
    IN  IF n > 1 /\ snake_squares[n - 1] = AddDir(old_head, direction)
        THEN current_dir
        ELSE direction

\* Variant of StepOver: reports the death again instead of returning [].
StepOver_Dead ==
    /\ events' = << <<"DEAD">> >>
    /\ UNCHANGED <<board, snake_squares, food_square, current_dir, game_over>>

\* Lines 208-209: a step on a finished game.
StepOver ==
    /\ events' = << >>
    /\ UNCHANGED <<board, snake_squares, food_square, current_dir, game_over>>

\* Variant of StepOffBoard: the bounds check runs after the tail was dropped.
StepOffBoard_PopTail ==
    /\ game_over' = TRUE
    /\ events' = << <<"DEAD">> >>
    /\ board' = [board EXCEPT ![Head(snake_squares)] = 0]
    /\ snake_squares' = Tail(snake_squares)
    /\ UNCHANGED food_square

\* Lines 224-226: the new head is off the board.
StepOffBoard ==
    /\ game_over' = TRUE
    /\ events' = << <<"DEAD">> >>
    /\ UNCHANGED <<board, snake_squares, food_square>>

\* Variant of StepWin: the last food is eaten like any other, with no cell
\* left to place a new one.
StepWin_Grow ==
    /\ game_over' = TRUE
    /\ events' = << <<"EAT", food_square>>, <<"ADD", food_square>>, <<"WIN">> >>
    /\ board' = [board EXCEPT ![food_square] = 1]
    /\ snake_squares' = Append(snake_squares, food_square)
    /\ UNCHANGED food_square

\* Variant of StepWin: the winning step also moves the head onto the food.
StepWin_Advance ==
    /\ game_over' = TRUE
    /\ events' = << <<"EAT", food_square>>, <<"WIN">> >>
    /\ board' = [board EXCEPT ![food_square] = 1]
    /\ snake_squares' = Append(snake_squares, food_square)
    /\ UNCHANGED food_square

\* Lines 230-232: no empty cell is left for the new food.
StepWin ==
    /\ game_over' = TRUE
    /\ events' = << <<"EAT", food_square>>, <<"WIN">> >>
    /\ UNCHANGED <<board, snake_squares, food_square>>

\* Variant of StepCommit: on a collision DEAD is appended to the queued
\* events instead of replacing them.
StepCommit_AppendDead(b, s, ev, new_head) ==
    IF b[new_head] = 1
    THEN /\ game_over' = TRUE
         /\ events' = Append(ev, <<"DEAD">>)
         /\ board' = b
         /\ snake_squares' = s
    ELSE /\ board' = [b EXCEPT ![new_head] = 1]
         /\ snake_squares' = Append(s, new_head)
         /\ events' = Append(ev, <<"ADD", new_head>>)
         /\ UNCHANGED game_over

\* Variant of StepCommit: any cell that is not empty counts as a collision.
StepCommit_NonEmpty(b, s, ev, new_head) ==
    IF b[new_head] # 0
    THEN /\ game_over' = TRUE
         /\ events' = << <<"DEAD">> >>
         /\ board' = b
         /\ snake_squares' = s
    ELSE /\ board' = [b EXCEPT ![new_head] = 1]
         /\ snake_squares' = Append(s, new_head)
         /\ events' = Append(ev, <<"ADD", new_head>>)
         /\ UNCHANGED game_over

\* Variant of StepCommit: the collision check is missing.
StepCommit_NoCheck(b, s, ev, new_head) ==
    /\ board' = [b EXCEPT ![new_head] = 1]
    /\ snake_squares' = Append(s, new_head)
    /\ events' = Append(ev, <<"ADD", new_head>>)
    /\ UNCHANGED game_over

\* Lines 244-250: collision check on the adjusted board, then the commit.
StepCommit(b, s, ev, new_head) ==
    IF b[new_head] = 1
    THEN /\ game_over' = TRUE
         /\ events' = << <<"DEAD">> >>
         /\ board' = b
         /\ snake_squares' = s
    ELSE /\ board' = [b EXCEPT ![new_head] = 1]
         /\ snake_squares' = Append(s, new_head)
         /\ events' = Append(ev, <<"ADD", new_head>>)
         /\ UNCHANGED game_over

\* Variant of StepEat: the tail is dropped on an eating step too.
StepEat_DropTail(new_head) ==
    \E new_food_square \in EmptyCells(board) :
        /\ food_square' = new_food_square
        /\ StepCommit([board EXCEPT ![new_food_square] = 2,
                                    ![Head(snake_squares)] = 0],
                      Tail(snake_squares),
                      << <<"EAT", food_square>>, <<"NEW_FOOD", new_food_square>> >>,
                      new_head)

\* Lines 229, 234-237 then 244-250: eat the food and place the new one.
StepEat(new_head) ==
    \E new_food_square \in EmptyCells(board) :
        /\ food_square' = new_food_square
        /\ StepCommit([board EXCEPT ![new_food_square] = 2],
                      snake_squares,
                      << <<"EAT", food_square>>, <<"NEW_FOOD", new_food_square>> >>,
                      new_head)

\* Variant of StepMove: the collision check runs before the tail is dropped.
StepMove_CheckFirst(new_head) ==
    LET tail == Head(snake_squares)
    IN  /\ UNCHANGED food_square
        /\ IF board[new_head] = 1
           THEN /\ game_over' = TRUE
                /\ events' = << <<"DEAD">> >>
                /\ UNCHANGED <<board, snake_squares>>
           ELSE StepCommit([board EXCEPT ![tail] = 0],
                           Tail(snake_squares),
                           << <<"REMOVE", tail>> >>,
                           new_head)

\* Variant of StepMove: pop() instead of popleft(), the head end is dropped.
StepMove_PopRight(new_head) ==
    LET n == Len(snake_squares)
        tail == snake_squares[n]
    IN  /\ UNCHANGED food_square
        /\ StepCommit([board EXCEPT ![tail] = 0],
                      SubSeq(snake_squares, 1, n - 1),
                      << <<"REMOVE", tail>> >>,
                      new_head)

\* Variant of StepMove: the tail leaves the deque but its board cell stays 1.
StepMove_KeepCell(new_head) ==
    LET tail == Head(snake_squares)
    IN  /\ UNCHANGED food_square
        /\ StepCommit(board,
                      Tail(snake_squares),
                      << <<"REMOVE", tail>> >>,
                      new_head)

\* Lines 239-241 then 244-250: drop the tail.
StepMove(new_head) ==
    LET tail == Head(snake_squares)
    IN  /\ UNCHANGED food_square
        /\ StepCommit([board EXCEPT ![tail] = 0],
                      Tail(snake_squares),
                      << <<"REMOVE", tail>> >>,
                      new_head)

\* Variant of step: current_dir records the requested direction, not the
\* resolved one.
step_RecordsRequest(direction) ==
    IF game_over
    THEN StepOver
    ELSE LET dir == ResolveDir(direction)
             new_head == AddDir(snake_squares[Len(snake_squares)], dir)
         IN  /\ current_dir' = direction
             /\ IF ~InBounds(new_head)
                THEN StepOffBoard
                ELSE IF new_head = food_square
                     THEN IF EmptyCells(board) = {}
                          THEN StepWin
                          ELSE StepEat(new_head)
                     ELSE StepMove(new_head)

\* SnakeGame.step(direction)
step(direction) ==
    IF game_over
    THEN StepOver
    ELSE LET dir == ResolveDir(direction)
             new_head == AddDir(snake_squares[Len(snake_squares)], dir)
         IN  /\ current_dir' = dir
             /\ IF ~InBounds(new_head)
                THEN StepOffBoard
                ELSE IF new_head = food_square
                     THEN IF EmptyCells(board) = {}
                          THEN StepWin
                          ELSE StepEat(new_head)
                     ELSE StepMove(new_head)

\* What is recorded of a step(direction) call: the direction asked for, and
\* whether the step took the food branch of line 227.
StepCall(direction) ==
    [op |-> "step",
     direction |-> direction,
     on_food |-> /\ ~game_over
                 /\ LET new_head == AddDir(snake_squares[Len(snake_squares)],
                                           ResolveDir(direction))
                    IN  InBounds(new_head) /\ new_head = food_square]

\* The actions handed to SnakeEnv.step: the four valid ones and one invalid
\* value on each side.
Actions == -1 .. 4

\* self.action_space.contains(action), action_space = spaces.Discrete(4)
ActionValid(action) == action \in 0 .. 3

\* Lines 65-72: the direction of an action.
ActionDir(action) ==
    CASE action = 0 -> "NORTH"
      [] action = 1 -> "EAST"
      [] action = 2 -> "SOUTH"
      [] action = 3 -> "WEST"

\* self.viewer = None
ViewerNone == [open |-> FALSE]

\* SnakeViewer.reset: one food geom at food_square and one snake geom for
\* each cell of get_snake_squares.  snake_geoms is the key set of the dict,
\* food_geom the square the food geom is drawn at (<< >> for None).
ViewerReset(b, food) ==
    [open |-> TRUE,
     snake_geoms |-> {c \in Cells : b[c] = 1},
     food_geom |-> <<food>>]

\* SnakeViewer.process_event
process_event(v, event) ==
    IF Len(event) = 2
    THEN CASE event[1] = "EAT" -> [v EXCEPT !.food_geom = << >>]
           [] event[1] = "NEW_FOOD" -> [v EXCEPT !.food_geom = <<event[2]>>]
           [] event[1] = "ADD" ->
                 [v EXCEPT !.snake_geoms = v.snake_geoms \cup {event[2]}]
           [] event[1] = "REMOVE" ->
                 [v EXCEPT !.snake_geoms = v.snake_geoms \ {event[2]}]
           [] OTHER -> v
    ELSE v

\* Lines 75-77: the viewer, if there is one, processes each event in order.
RECURSIVE ViewerAfter(_, _)
ViewerAfter(v, evs) ==
    IF ~v.open \/ evs = << >>
    THEN v
    ELSE ViewerAfter(process_event(v, Head(evs)), Tail(evs))

\* Variant of RewardFrom: tests event == Event.EAT, which no (EAT, square)
\* pair equals.
RECURSIVE RewardFrom_BareEat(_, _)
RewardFrom_BareEat(r, evs) ==
    IF evs = << >>
    THEN r
    ELSE LET event == Head(evs)
         IN  RewardFrom_BareEat(IF event = <<"DEAD">>
                                THEN -1
                                ELSE IF event = <<"EAT">> THEN 1 ELSE r,
                                Tail(evs))

\* Lines 74-81: the reward the loop over the events ends with, from reward r.
RECURSIVE RewardFrom(_, _)
RewardFrom(r, evs) ==
    IF evs = << >>
    THEN r
    ELSE LET event == Head(evs)
         IN  RewardFrom(IF event = <<"DEAD">>
                        THEN -1
                        ELSE IF Len(event) = 2 /\ event[1] = "EAT"
                             THEN 1
                             ELSE r,
                        Tail(evs))

\* Variant of EnvStepOver: the early return is missing, the engine is asked
\* and answers [].
EnvStepOver_CallsEngine(action) ==
    IF ActionValid(action)
    THEN /\ step(ActionDir(action))
         /\ call' = StepCall(ActionDir(action))
         /\ viewer' = ViewerAfter(viewer, events')
         /\ env_call' = [op |-> "step", valid |-> TRUE, action |-> action,
                         outcome |-> "return",
                         obs |-> "board", reward |-> RewardFrom(0, events'),
                         done |-> game_over']
    ELSE /\ env_call' = [op |-> "step", valid |-> FALSE, outcome |-> "error"]
         /\ UNCHANGED <<game_vars, events, call, viewer>>

\* Lines 62-63: the game is over: (None, 0, True, {}) before anything else.
EnvStepOver(action) ==
    /\ env_call' = [op |-> "step", valid |-> ActionValid(action),
                    outcome |-> "return",
                    obs |-> "None", reward |-> 0, done |-> TRUE]
    /\ UNCHANGED <<game_vars, events, call, viewer>>

\* Line 64: the assertion fails.
EnvStepInvalid(action) ==
    /\ env_call' = [op |-> "step", valid |-> ActionValid(action),
                    outcome |-> "error"]
    /\ UNCHANGED <<game_vars, events, call, viewer>>

\* Lines 65-82: the engine steps, the viewer follows, the reward is computed.
EnvStepLive(action) ==
    /\ step(ActionDir(action))
    /\ call' = StepCall(ActionDir(action))
    /\ viewer' = ViewerAfter(viewer, events')
    /\ env_call' = [op |-> "step", valid |-> TRUE, action |-> action,
                    outcome |-> "return",
                    obs |-> "board", reward |-> RewardFrom(0, events'),
                    done |-> game_over']

\* SnakeGame.__init__ ends in self.reset(): a random head and a random food.
InitGame ==
    /\ game_over = FALSE
    /\ current_dir = "NORTH"
    /\ events = << >>
    /\ \E head \in Cells :
          /\ snake_squares = <<head>>
          /\ call = [op |-> "reset", head |-> head, over_before |-> FALSE]
          /\ \E food \in Cells \ {head} :
                /\ food_square = food
                /\ board = [c \in Cells |->
                              IF c = head THEN 1 ELSE IF c = food THEN 2 ELSE 0]

\* A SnakeGame used on its own, as the unit tests do: no viewer, no adapter call.
Init ==
    /\ InitGame
    /\ viewer = ViewerNone
    /\ env_call = [op |-> "none"]

\* SnakeGame.reset(head) called directly.
Reset ==
    \E head \in Cells :
        /\ reset(head)
        /\ events' = << >>
        /\ call' = [op |-> "reset", head |-> head, over_before |-> game_over]
        /\ UNCHANGED <<viewer, env_call>>

\* SnakeGame.step(direction) called directly.
Step ==
    \E direction \in Dir :
        /\ step(direction)
        /\ call' = StepCall(direction)
        /\ UNCHANGED <<viewer, env_call>>

Next == Reset \/ Step

Spec == Init /\ [][Next]_vars

\* SnakeEnv() followed by the first render(), which creates the viewer
\* (SnakeViewer.__init__ ends in self.reset()).
EnvInit ==
    /\ InitGame
    /\ viewer = ViewerReset(board, food_square)
    /\ env_call = [op |-> "none"]

\* SnakeEnv.reset()
EnvReset ==
    \E head \in Cells :
        /\ reset(head)
        /\ events' = << >>
        /\ call' = [op |-> "reset", head |-> head, over_before |-> game_over]
        /\ viewer' = IF viewer.open
                     THEN ViewerReset(board', food_square')
                     ELSE viewer
        /\ env_call' = [op |-> "reset"]

\* SnakeEnv.step(action)
EnvStep ==
    \E action \in Actions :
        IF game_over
        THEN EnvStepOver(action)
        ELSE IF ~ActionValid(action)
             THEN EnvStepInvalid(action)
             ELSE EnvStepLive(action)

EnvNext == EnvReset \/ EnvStep

\* The game driven through the adapter, with the viewer attached.
EnvSpec == EnvInit /\ [][EnvNext]_vars

\* A step that takes the food branch and returns its Eat event.
EatingStep == Step /\ call'.on_food /\ events'[1][1] = "EAT"

\* The game in the hands of a caller that keeps stepping and that, steering
\* the snake to the food again and again, keeps taking the food branch.
FairSpec == Spec /\ WF_vars(Step) /\ SF_vars(EatingStep)

(***************************************************************************)
(* Vocabulary of the properties.  A step is described by the state it      *)
(* starts in (unprimed) and the state it ends in (primed); call' tells     *)
(* which call made the transition.                                         *)
(***************************************************************************)

\* The transition is a call of step / a call of step on a game in progress.
IsStep == call'.op = "step"
IsLiveStep == IsStep /\ ~game_over

HeadOf(s) == s[Len(s)]
BodyOf(s) == {s[i] : i \in 1 .. Len(s)}
OnBoard(sq) == sq \in Cells
FoodCells == {c \in Cells : board[c] = 2}
SnakeCells == {c \in Cells : board[c] = 1}
NoEmptyCell == \A c \in Cells : board[c] # 0

\* The candidate head of the step: old head plus the direction the step
\* resolved to, which line 222 leaves in current_dir.
Candidate == AddDir(HeadOf(snake_squares), current_dir')

\* The requested move would put the head on the neck.
OntoNeck ==
    /\ Len(snake_squares) >= 2
    /\ AddDir(HeadOf(snake_squares), call'.direction)
          = snake_squares[Len(snake_squares) - 1]

HasEvent(evs, name) == \E i \in 1 .. Len(evs) : evs[i][1] = name

\* C1: in every reachable state exactly one board cell holds Food, that cell
\* is food_square, and food_square is not a member of the snake body.
C1_OneFood ==
    /\ Cardinality(FoodCells) = 1
    /\ board[food_square] = 2
    /\ food_square \notin BodyOf(snake_squares)

\* C1 witness: a step ate the food and a new food cell was placed.
C1_Witness ==
    /\ call.op = "step"
    /\ HasEvent(events, "NEW_FOOD")
    /\ Len(snake_squares) >= 3

\* C2: in every reachable state the cells marked Snake are exactly the
\* coordinates in the body deque, the deque has no duplicates, has length
\* at least 1, and every coordinate lies in [0,width) x [0,height).
C2_BodyMatchesBoard ==
    /\ SnakeCells = BodyOf(snake_squares)
    /\ Cardinality(BodyOf(snake_squares)) = Len(snake_squares)
    /\ Len(snake_squares) >= 1
    /\ \A i \in 1 .. Len(snake_squares) :
          /\ snake_squares[i][1] \in 0 .. (Width - 1)
          /\ snake_squares[i][2] \in 0 .. (Height - 1)

\* C2 witness: a snake of length 4 or more has just moved without eating.
C2_Witness ==
    /\ call.op = "step"
    /\ ~game_over
    /\ HasEvent(events, "REMOVE")
    /\ Len(snake_squares) >= 4

\* C3: every event sequence step returns is [] (game already over), [Dead],
\* [Eat(f), Win], [Eat(f), NewFood(n), Add(f)] with f the food before the
\* step, or [Remove(t), Add(h)] with t the old tail and h the new head; none
\* contains both Dead and Eat, and Remove never appears with Eat.
C3_EventShapes ==
    [][IsStep =>
         /\ \/ game_over /\ events' = << >>
            \/ ~game_over /\ events' = << <<"DEAD">> >>
            \/ ~game_over /\ events' = << <<"EAT", food_square>>, <<"WIN">> >>
            \/ /\ ~game_over
               /\ \E n \in Cells :
                     events' = << <<"EAT", food_square>>, <<"NEW_FOOD", n>>,
                                  <<"ADD", food_square>> >>
            \/ /\ ~game_over
               /\ events' = << <<"REMOVE", Head(snake_squares)>>,
                               <<"ADD", HeadOf(snake_squares')>> >>
         /\ ~(HasEvent(events', "DEAD") /\ HasEvent(events', "EAT"))
         /\ ~(HasEvent(events', "REMOVE") /\ HasEvent(events', "EAT"))
      ]_vars

\* C3 witness: a step returned the three events of an eating step.
C3_Witness ==
    /\ call.op = "step"
    /\ Len(events) = 3
    /\ events[1] = <<"EAT", HeadOf(snake_squares)>>
    /\ events[3] = <<"ADD", HeadOf(snake_squares)>>

\* C4: once the game is over, every further step returns the empty event
\* sequence and leaves board, body, food, current direction and the
\* game-over flag unchanged; the flag stays true until reset is called.
C4_OverIsFrozen ==
    [][game_over =>
         /\ IsStep =>
               /\ events' = << >>
               /\ UNCHANGED <<board, snake_squares, food_square,
                              current_dir, game_over>>
         /\ game_over' \/ call'.op = "reset"
      ]_vars

\* C4 witness: step was called on a game that was already over.
C4_Witness ==
    /\ game_over
    /\ call.op = "step"
    /\ events = << >>

\* C5: a step on a game in progress whose resolved candidate head is off
\* the board returns exactly [Dead], sets game-over, and leaves the board
\* grid, the snake body and the food coordinate unchanged.
C5_OffBoardDeath ==
    [][(IsLiveStep /\ ~OnBoard(Candidate)) =>
         /\ events' = << <<"DEAD">> >>
         /\ game_over'
         /\ UNCHANGED <<board, snake_squares, food_square>>
      ]_vars

\* C5 witness: the last step walked a snake of length 2 or more off the board.
C5_Witness ==
    /\ game_over
    /\ events = << <<"DEAD">> >>
    /\ ~OnBoard(AddDir(HeadOf(snake_squares), current_dir))
    /\ Len(snake_squares) >= 2

\* C6: a step on a game in progress whose resolved candidate head is the
\* food f, with an Empty cell left, returns Eat(f), NewFood(n), Add(f) and no
\* Remove; the snake grows by one keeping its tail, f becomes the head, and
\* n was Empty before the step (neither a snake cell nor f).
C6_EatGrows ==
    [][(IsLiveStep /\ Candidate = food_square /\ ~NoEmptyCell) =>
         \E n \in Cells :
            /\ board[n] = 0
            /\ n \notin BodyOf(snake_squares)
            /\ n # food_square
            /\ events' = << <<"EAT", food_square>>, <<"NEW_FOOD", n>>,
                            <<"ADD", food_square>> >>
            /\ ~HasEvent(events', "REMOVE")
            /\ snake_squares' = Append(snake_squares, food_square)
            /\ Len(snake_squares') = Len(snake_squares) + 1
            /\ food_square' = n
            /\ board'[n] = 2
            /\ ~game_over'
      ]_vars

\* C6 witness: the snake has just eaten and is two cells long.
C6_Witness ==
    /\ call.op = "step"
    /\ HasEvent(events, "EAT")
    /\ ~game_over
    /\ Len(snake_squares) = 2
    /\ events[2] = <<"NEW_FOOD", food_square>>

\* C7: length conservation: a step on a game in progress whose resolved
\* candidate head is on the board and is not the food cell leaves the snake
\* length as it was.
C7_LengthConserved ==
    [][(IsLiveStep /\ OnBoard(Candidate) /\ Candidate # food_square) =>
         Len(snake_squares') = Len(snake_squares)
      ]_vars

\* C8: reversal guard: step replaces the requested direction by the
\* remembered current direction if and only if the snake has length >= 2 and
\* the requested move would put the head on the neck; the step then has the
\* result of a step requesting the current direction and never dies on the
\* neck.  With a snake of length 1 every requested direction is honored,
\* the opposite of the previous move included.
C8_ReversalGuard ==
    [][IsLiveStep =>
         /\ current_dir' = IF OntoNeck THEN current_dir ELSE call'.direction
         /\ OntoNeck =>
               /\ current_dir # call'.direction
               /\ step(current_dir)
               /\ Candidate # snake_squares[Len(snake_squares) - 1]
               /\ game_over' =>
                     \/ ~OnBoard(Candidate)
                     \/ Candidate \in BodyOf(snake_squares)
                            \ {snake_squares[Len(snake_squares) - 1]}
                     \/ HasEvent(events', "WIN")
         /\ Len(snake_squares) = 1 =>
               /\ current_dir' = call'.direction
               /\ Candidate = AddDir(snake_squares[1], call'.direction)
               /\ OnBoard(Candidate) =>
                     /\ ~game_over'
                     /\ HeadOf(snake_squares') = Candidate
      ]_vars

\* C8 witness: the last step asked for the move onto the neck and the snake
\* went on in its previous direction instead.
C8_Witness ==
    /\ call.op = "step"
    /\ ~game_over
    /\ HasEvent(events, "ADD")
    /\ Len(snake_squares) >= 3
    /\ call.direction # current_dir

\* C9: self-collision: a step on a game in progress whose resolved candidate
\* head is on the board, is not the food cell and is a body cell other than
\* the current tail returns exactly [Dead] and sets game-over.
C9_SelfCollision ==
    [][(/\ IsLiveStep
        /\ OnBoard(Candidate)
        /\ Candidate # food_square
        /\ Candidate \in BodyOf(snake_squares) \ {Head(snake_squares)}) =>
         /\ events' = << <<"DEAD">> >>
         /\ game_over'
      ]_vars

\* C9 witness: the last step ran the head into the body; the snake had grown
\* to length 5 or more (its tail has been dropped, so 4 or more remain).
C9_Witness ==
    /\ game_over
    /\ events = << <<"DEAD">> >>
    /\ AddDir(HeadOf(snake_squares), current_dir) \in BodyOf(snake_squares)
    /\ Len(snake_squares) >= 4

\* C10: win: a step on a game in progress emits Win if and only if the
\* resolved candidate head is the food coordinate and the board has no Empty
\* cell; it then returns exactly [Eat(food), Win], sets game-over and leaves
\* board grid, snake body and food coordinate unchanged.
C10_Win ==
    [][IsStep =>
         /\ HasEvent(events', "WIN") <=>
               (~game_over /\ Candidate = food_square /\ NoEmptyCell)
         /\ HasEvent(events', "WIN") =>
               /\ events' = << <<"EAT", food_square>>, <<"WIN">> >>
               /\ game_over'
               /\ UNCHANGED <<board, snake_squares, food_square>>
               /\ Cardinality({c \in Cells : board'[c] = 1})
                     = Cardinality(SnakeCells)
      ]_vars

\* C10 witness: the last step won: the snake fills every cell but the food.
C10_Witness ==
    /\ game_over
    /\ events = << <<"EAT", food_square>>, <<"WIN">> >>
    /\ Len(snake_squares) = Width * Height - 1

\* The transition is a call of SnakeEnv.step.
IsEnvStep == env_call'.op = "step"

\* Consecutive body cells s[i], s[i+1] are one unit offset apart.
Adjacent(a, b) == \E d \in Dir : AddDir(a, d) = b

\* C11: observer replay: an observer that starts from the snake cells at
\* reset and applies the Add/Remove events of each step, as
\* SnakeViewer.process_event does, holds after every step (terminal steps
\* included) exactly the cells the board marks Snake.
C11_ObserverReplay ==
    viewer.open => viewer.snake_geoms = SnakeCells

\* C12: for every SnakeEnv.step with a valid action on a game in progress the
\* reward is -1 exactly when the events contain Dead, +1 exactly when they
\* contain an Eat (the winning [Eat, Win] included) and 0 otherwise; the
\* terminal flag is the engine's game-over flag after the step, true exactly
\* on Dead and Win steps.
C12_RewardMapping ==
    [][(IsEnvStep /\ ~game_over /\ env_call'.valid) =>
         /\ env_call'.outcome = "return"
         /\ env_call'.obs = "board"
         /\ env_call'.action \in 0 .. 3
         /\ call'.op = "step"
         /\ call'.direction =
               <<"NORTH", "EAST", "SOUTH", "WEST">>[env_call'.action + 1]
         /\ env_call'.reward = -1 <=> HasEvent(events', "DEAD")
         /\ env_call'.reward = 1 <=> HasEvent(events', "EAT")
         /\ env_call'.reward = 0 <=>
               ~(HasEvent(events', "DEAD") \/ HasEvent(events', "EAT"))
         /\ env_call'.done = game_over'
         /\ env_call'.done <=>
               (HasEvent(events', "DEAD") \/ HasEvent(events', "WIN"))
      ]_vars

\* C12 witness: the adapter has just returned the winning step: reward +1
\* and terminal.
C12_Witness ==
    /\ env_call.op = "step"
    /\ env_call.outcome = "return"
    /\ env_call.reward = 1
    /\ env_call.done
    /\ HasEvent(events, "WIN")

\* C13: SnakeEnv.step with an action outside the four valid ones fails with
\* an invalid-action error in every state of the game, in progress or over;
\* the engine's step is not invoked and its state is unchanged.
C13_InvalidActionFails ==
    [][(IsEnvStep /\ ~env_call'.valid) =>
         /\ env_call'.outcome = "error"
         /\ UNCHANGED <<game_vars, events, call>>
      ]_vars

\* C14: when the engine is already game-over, SnakeEnv.step with a valid
\* action returns the fixed sentinel (no board, reward 0, terminal true)
\* without invoking the engine step and without changing engine state, for
\* every number of repeated calls until reset.
C14_SentinelWhenOver ==
    [][(IsEnvStep /\ game_over /\ env_call'.valid) =>
         /\ env_call'.outcome = "return"
         /\ env_call'.obs = "None"
         /\ env_call'.reward = 0
         /\ env_call'.done = TRUE
         /\ UNCHANGED <<game_vars, events, call, viewer>>
         /\ game_over'
      ]_vars

\* C14 witness: the adapter was stepped with a valid action on a game that
\* was over and returned the sentinel.
C14_Witness ==
    /\ game_over
    /\ env_call.op = "step"
    /\ env_call.valid
    /\ env_call.obs = "None"
    /\ events # << >>

\* C15: reset(head), called in any state including a terminal one, yields a
\* game in progress with current direction North, a body of exactly the
\* given head cell, exactly one Food cell among the cells other than the
\* head, and every remaining cell Empty: nothing of the previous game
\* survives.
C15_ResetIsFresh ==
    [][call'.op = "reset" =>
         /\ ~game_over'
         /\ current_dir' = "NORTH"
         /\ call'.head \in Cells
         /\ snake_squares' = <<call'.head>>
         /\ food_square' \in Cells \ {call'.head}
         /\ board' = [c \in Cells |->
                        IF c = call'.head THEN 1
                        ELSE IF c = food_square' THEN 2 ELSE 0]
         /\ Cardinality({c \in Cells : board'[c] = 2}) = 1
      ]_vars

\* C15 witness: reset has just been called on a finished game.
C15_Witness ==
    /\ call.op = "reset"
    /\ call.over_before
    /\ ~game_over
    /\ Len(snake_squares) = 1

\* C16 as stated: a step is reachable whose candidate head is the food
\* coordinate and whose collision check fires, so that it returns only [Dead]
\* and the queued Eat/NewFood events are discarded.
C16_EatThenCollide ==
    <>(call.op = "step" /\ call.on_food /\ events = << <<"DEAD">> >>)

\* C16 (amended): no step whose candidate head is the food coordinate has its
\* collision check fire: the candidate cell holds Food, not Snake, and the
\* step returns its Eat event, never [Dead].
C16_EatNeverCollides ==
    [][(IsLiveStep /\ Candidate = food_square) =>
         /\ board[Candidate] = 2
         /\ Candidate \notin BodyOf(snake_squares)
         /\ events' # << <<"DEAD">> >>
         /\ events'[1] = <<"EAT", food_square>>
         /\ \/ HasEvent(events', "WIN")
            \/ events'[Len(events')] = <<"ADD", food_square>>
      ]_vars

\* C16 witness: a snake of length 4 or more has just eaten food that lay
\* right beside its own body.
C16_Witness ==
    /\ call.op = "step"
    /\ call.on_food
    /\ ~game_over
    /\ HasEvent(events, "EAT")
    /\ Len(snake_squares) >= 5
    /\ \E i \in 1 .. (Len(snake_squares) - 2) :
          Adjacent(HeadOf(snake_squares), snake_squares[i])

\* C17: tail chasing: a no-food step whose candidate head is the cell the
\* tail occupies (snake length >= 4) is not a death: it returns
\* [Remove(tail), Add(tail)], the game stays in progress and the length is
\* unchanged.
C17_TailChasing ==
    [][(/\ IsLiveStep
        /\ Candidate # food_square
        /\ Candidate = Head(snake_squares)) =>
         /\ Len(snake_squares) >= 4
         /\ events' = << <<"REMOVE", Head(snake_squares)>>,
                         <<"ADD", Head(snake_squares)>> >>
         /\ ~game_over'
         /\ Len(snake_squares') = Len(snake_squares)
         /\ HeadOf(snake_squares') = Head(snake_squares)
      ]_vars

\* C17 witness: the last step moved the head onto the cell the tail had just
\* left.
C17_Witness ==
    /\ call.op = "step"
    /\ ~game_over
    /\ Len(events) = 2
    /\ events[1][1] = "REMOVE"
    /\ events[2] = <<"ADD", events[1][2]>>

\* C18: in every reachable state of a game in progress with snake length
\* >= 2 the remembered current direction is head minus neck, so the
\* direction the reversal guard substitutes moves the head away from the
\* neck, never onto it.
C18_DirIsLastMove ==
    (~game_over /\ Len(snake_squares) >= 2) =>
        /\ AddDir(snake_squares[Len(snake_squares) - 1], current_dir)
              = HeadOf(snake_squares)
        /\ AddDir(HeadOf(snake_squares), current_dir)
              # snake_squares[Len(snake_squares) - 1]

\* C18 witness: a snake of length 3 or more after a step in which the
\* reversal guard substituted the direction.
C18_Witness ==
    /\ call.op = "step"
    /\ ~game_over
    /\ Len(snake_squares) >= 3
    /\ call.direction # current_dir
    /\ HasEvent(events, "REMOVE")

\* C19: in every reachable state the snake body is a connected path: each
\* pair of consecutive coordinates in the deque differs by exactly one of
\* the four unit direction offsets.
C19_BodyConnected ==
    \A i \in 1 .. (Len(snake_squares) - 1) :
        Cardinality({d \in Dir :
                        AddDir(snake_squares[i], d) = snake_squares[i + 1]}) = 1

\* C19 witness: a snake of length 4 or more with a bend in it.
C19_Witness ==
    /\ Len(snake_squares) >= 4
    /\ \E i \in 1 .. (Len(snake_squares) - 2) :
          /\ snake_squares[i][1] # snake_squares[i + 2][1]
          /\ snake_squares[i][2] # snake_squares[i + 2][2]

\* C20: in every reachable state the snake length is at most
\* width*height - 1: the snake never occupies every cell, because the
\* winning step does not advance the head onto the last food cell.
C20_NeverFillsBoard ==
    /\ Len(snake_squares) <= Width * Height - 1
    /\ \E c \in Cells : board[c] # 1

\* C20 witness: the snake covers every cell but the food cell and the game
\* is still in progress.
C20_Witness ==
    /\ ~game_over
    /\ Len(snake_squares) = Width * Height - 1
    /\ NoEmptyCell

====
